---- MODULE Spec2Model ----
(***************************************************************************)
(* A model of src/src/crawler.ts: the search-form protocol (setCheckboxes, *)
(* fillDateField, performSearch), the default (listing) handler with its   *)
(* formFilled guard and pagination loop, the 'detail' handler, and the     *)
(* final export, run under the retry policy of the PlaywrightCrawler that  *)
(* dispatches them.                                                        *)
(***************************************************************************)
EXTENDS Integers, Sequences, FiniteSets, TLC

\* ------------------------------------------------------------ bounds
\* Retries the scheduler grants a request after its first attempt.
MaxRetries == 2
\* Result pages of a listing, and rows on one result page.
MaxPages == 2
MaxRows == 1
\* The harvest counter of a result page saturates here.
MaxHarvest == 2

\* ------------------------------------------------------------ text
\* An optional value (null, or an element that is absent) is the empty
\* sequence; a value v that is there is <<v>>.
Null == << >>
Some(v) == << v >>

\* String.prototype.toLowerCase, on the words the registry's messages use.
ToLowerWord(w) ==
    CASE w \in {"No", "NO", "no"} -> "no"
      [] w \in {"Results", "RESULTS", "results"} -> "results"
      [] w \in {"Found", "FOUND", "found"} -> "found"
      [] w \in {"Too", "TOO", "too"} -> "too"
      [] w \in {"Many", "MANY", "many"} -> "many"
      [] w \in {"Error", "ERROR", "error"} -> "error"
      [] OTHER -> w

ToLowerCase(t) == [i \in 1..Len(t) |-> ToLowerWord(t[i])]

\* White space (\s) among the tokens of a text.
IsSpace(w) == w \in {" ", "\t", "\n"}

\* String.prototype.trim: leading and trailing white space removed.
RECURSIVE TrimStart(_)
TrimStart(t) == IF t # <<>> /\ IsSpace(Head(t)) THEN TrimStart(Tail(t)) ELSE t

RECURSIVE TrimEnd(_)
TrimEnd(t) ==
    IF t # <<>> /\ IsSpace(t[Len(t)]) THEN TrimEnd(SubSeq(t, 1, Len(t) - 1)) ELSE t

Trim(t) == TrimEnd(TrimStart(t))

\* errorText?.includes(phrase): false on null, else contiguous containment.
Includes(t, phrase) ==
    /\ t # Null
    /\ \E i \in 1..(Len(t[1]) - Len(phrase) + 1) :
          SubSeq(t[1], i, i + Len(phrase) - 1) = phrase

NoResultsPhrase == <<"no", "results", "found">>
TooManyPhrase == <<"too", "many", "results", "found">>

\* The texts the .tabs-info-message element may carry.
MsgTexts ==
    { <<" ", "No", "results", "found", " ">>,
      <<"Too", "Many", "results", "found">>,
      <<"Too", "many", "results", "found", "NO", "RESULTS", "FOUND">>,
      <<"Error">>,
      <<"results", "found">> }

\* The message element of a page: absent (Null) or present with a text.
MsgStates == {Null} \cup { Some(t) : t \in MsgTexts }

\* ------------------------------------------------------------ checkboxes
TARGET_CHECKBOXES ==
    { "pwp_criteria_0",
      "collections_criteria_advanced_7",
      "collections_criteria_advanced_7_child_attrs_0" }

\* The id attribute of each input[type=checkbox] of the form, in document
\* order; "" is a control without an id.
CheckboxIds ==
    << "pwp_criteria_0",
       "pwp_criteria_1",
       "collections_criteria_advanced_7",
       "",
       "collections_criteria_advanced_7_child_attrs_0" >>

NumCheckboxes == Len(CheckboxIds)

CheckStates == [1..NumCheckboxes -> BOOLEAN]

shouldBeChecked(i) == CheckboxIds[i] \in TARGET_CHECKBOXES

\* Whether iteration i of the loop clicks its control; the variant does not
\* read isChecked.
ClicksBoxNoCompare(checks, i) == CheckboxIds[i] # "" /\ shouldBeChecked(i)

ClicksBox(checks, i) ==
    /\ CheckboxIds[i] # ""
    /\ checks[i] # shouldBeChecked(i)

\* One iteration of the for loop: the click toggles the control.
CheckboxIter(checks, i) ==
    IF ClicksBox(checks, i) THEN [checks EXCEPT ![i] = ~checks[i]] ELSE checks

RECURSIVE CheckboxesFrom(_, _)
CheckboxesFrom(checks, i) ==
    IF i > NumCheckboxes THEN checks
    ELSE CheckboxesFrom(CheckboxIter(checks, i), i + 1)

setCheckboxes(checks) == CheckboxesFrom(checks, 1)

\* ------------------------------------------------------------ date fields
\* Control+A, Backspace, then the value typed key by key after what is left;
\* the variant types without clearing.
fillDateFieldNoClear(old, value) == old \o value

fillDateField(old, value) == <<>> \o value

\* The text a date field holds when the form is first rendered.
StaleText == <<"1", "9", "7", "0">>

\* The argument pairs (startDate, endDate) of a run, as typed keys.
Criteria ==
    { [startDate |-> <<"2024-01-", "0", "1">>, endDate |-> <<"2024-01-", "3", "1">>],
      [startDate |-> <<"2024-01-", "1", "5">>, endDate |-> <<"2024-01-", "1", "5">>] }

CrawlCriteria ==
    { [startDate |-> <<"2024-01-", "0", "1">>, endDate |-> <<"2024-01-", "3", "1">>] }

\* ------------------------------------------------------------ the site
\* Row counts of the result pages of a listing: page p has pages[p] rows.
PageSeqs == UNION { [1..n -> 0..MaxRows] : n \in 1..MaxPages }

\* What the registry answers to the submitted query: a results table or
\* not, a message element or not, and the pages of the results table.
\* The checked state of the form's checkboxes when the form is rendered.
FormDefaults ==
    { [i \in 1..NumCheckboxes |-> i \in {2, 4}],
      [i \in 1..NumCheckboxes |-> i \in {1}],
      [i \in 1..NumCheckboxes |-> TRUE],
      [i \in 1..NumCheckboxes |-> FALSE] }

SitesWith(defaults) ==
    { [table |-> TRUE, msg |-> m, pages |-> ps, checks |-> c] :
        m \in MsgStates, ps \in PageSeqs, c \in defaults }
    \cup { [table |-> FALSE, msg |-> Some(t), pages |-> <<>>, checks |-> c] :
        t \in MsgTexts, c \in defaults }

Sites == SitesWith(FormDefaults)

\* The runs of the whole crawl start from one form default and one argument
\* pair: neither decides a branch of the handlers.
CrawlSites == SitesWith({ [i \in 1..NumCheckboxes |-> i \in {2, 4}] })

VARIABLES
    site,        \* the registry's answer to the query (fixed for a run)
    criteria,    \* { startDate, endDate } returned by validateArgs
    formFilled,  \* let formFilled (crawler.ts:172)
    pc,          \* position of the listing task
    retryCount,  \* request.retryCount of the listing request
    page,        \* the page resource of the current listing attempt
    hasNextPage, \* let hasNextPage (crawler.ts:182)
    search,      \* the performSearch invocation of the current attempt
    outcome,     \* SearchOutcome of that invocation
    searchDone,  \* some performSearch invocation of this run has returned
    error,       \* class of the error the listing handler threw
    submits,     \* clicks on the submit control in this run
    fills,       \* fillDateField calls in this run
    harvested,   \* enqueueLinks calls per result page
    detail,      \* request queue: status of every enqueued 'detail' link
    sink,        \* Dataset: links whose record was pushed
    logged,      \* links the detail handler logged as failed
    exported,    \* output.json, Null before Dataset.exportToJSON
    cbIdx,       \* index of the checkbox loop (checkbox specification)
    cbPass,      \* which application of setCheckboxes is running
    toggles,     \* clicks made by the current application
    afterFirst,  \* the checked states left by the first application
    dpage,       \* rows of table.details-list of the detail page being read
    rowIdx,      \* the row rows.forEach is at (0: no extraction running)
    result,      \* const result of extractDetailData
    cli          \* process.argv.slice(2) and how validateArgs ended

vars ==
    << site, criteria, formFilled, pc, retryCount, page, hasNextPage, search,
       outcome, searchDone, error, submits, fills, harvested, detail, sink, logged,
       exported, cbIdx, cbPass, toggles, afterFirst, dpage, rowIdx, result, cli >>

cbVars == << cbIdx, cbPass, toggles, afterFirst >>
auxVars == << dpage, rowIdx, result, cli >>
detailVars == << detail, sink, logged, exported >>

\* The page a listing attempt is given: BASE_URL freshly loaded.
FreshPage ==
    [ kind |-> "form", formSeen |-> FALSE, checks |-> site.checks, cbSet |-> FALSE,
      dateFrom |-> StaleText, dateTo |-> StaleText,
      table |-> FALSE, msg |-> Null, cur |-> 0 ]

InitRun ==
    /\ formFilled = FALSE
    /\ pc = "queued"
    /\ retryCount = 0
    /\ page = FreshPage
    /\ hasNextPage = FALSE
    /\ search = "idle"
    /\ outcome = "none"
    /\ searchDone = FALSE
    /\ error = "none"
    /\ submits = 0
    /\ fills = 0
    /\ harvested = [p \in 1..Len(site.pages) |-> 0]
    /\ sink = {}
    /\ logged = {}
    /\ exported = Null
    /\ cbIdx = 0
    /\ cbPass = 0
    /\ toggles = 0
    /\ afterFirst = page.checks

\* No detail request is queued, no extraction is running, and validateArgs
\* has returned the arguments.
InitIdle ==
    /\ detail = << >>
    /\ dpage = << >>
    /\ rowIdx = 0
    /\ result = << >>
    /\ cli = [argv |-> << criteria.startDate, criteria.endDate >>, status |-> "ok"]

\* A whole crawl: listing task, detail tasks and export.
Init ==
    /\ site \in CrawlSites
    /\ criteria \in CrawlCriteria
    /\ InitRun
    /\ InitIdle

\* The listing task alone, over every form default and argument pair.
ListingInit ==
    /\ site \in Sites
    /\ criteria \in Criteria
    /\ InitRun
    /\ InitIdle

\* ------------------------------------------------------------ performSearch
\* request.url.includes('/search/advanced-search') && !formFilled; the
\* listing request is always BASE_URL, which includes the path. The variant
\* is a flag kept per task, false at the start of every attempt.
ShouldSearchPerTask == TRUE

ShouldSearch == ~formFilled

\* The predicate of waitForFunction: .search-table or .tabs-info-message.
Appeared(pg) == pg.table \/ pg.msg # Null

\* page.$eval(ErrorMessage, el => el?.textContent?.toLowerCase().trim())
\* .catch(() => null): null when no element matches.
errorText(pg) == IF pg.msg = Null THEN Null ELSE Some(Trim(ToLowerCase(pg.msg[1])))

\* The two tests on errorText, in the order of the code; the variant makes
\* them in the other order.
ClassifyOverflowFirst(text) ==
    IF Includes(text, TooManyPhrase) THEN "OverflowResult"
    ELSE IF Includes(text, NoResultsPhrase) THEN "EmptyResult"
    ELSE "Success"

Classify(text) ==
    IF Includes(text, NoResultsPhrase) THEN "EmptyResult"
    ELSE IF Includes(text, TooManyPhrase) THEN "OverflowResult"
    ELSE "Success"

\* The class of the error performSearch throws for an outcome; the variants
\* throw a plain Error for both phrases, and for the second.
ErrorForPlain(o) ==
    IF o \in {"EmptyResult", "OverflowResult"} THEN "Error" ELSE "none"

ErrorForOverflowPlain(o) ==
    CASE o = "EmptyResult" -> "NonRetryableError"
      [] o = "OverflowResult" -> "Error"
      [] OTHER -> "none"

ErrorFor(o) ==
    IF o \in {"EmptyResult", "OverflowResult"} THEN "NonRetryableError" ELSE "none"

\* The scheduler retries every error but a NonRetryableError.
Retryable(e) == e # "NonRetryableError"

listingRest == << site, criteria, retryCount, harvested, searchDone >>

\* The scheduler hands the listing request to the default handler on a
\* freshly loaded page; the handler evaluates its guard. crawler.run is
\* reached only when validateArgs has returned.
StartHandler ==
    /\ cli.status = "ok"
    /\ pc = "queued"
    /\ page' = FreshPage
    /\ error' = "none"
    /\ outcome' = "none"
    /\ IF ShouldSearch
         THEN /\ pc' = "waitForm"
              /\ search' = "running"
              /\ UNCHANGED hasNextPage
         ELSE /\ pc' = "enqueue"
              /\ search' = "idle"
              /\ hasNextPage' = TRUE
    /\ UNCHANGED << formFilled, submits, fills >>
    /\ UNCHANGED << listingRest, detailVars, cbVars, auxVars >>

\* A wait of performSearch times out.
SearchTimeout(o) ==
    /\ pc' = "threw"
    /\ search' = "threw"
    /\ outcome' = o
    /\ error' = "TimeoutError"

\* waitForLoadState('networkidle'), waitForSelector(FormContainer).
WaitForm ==
    /\ pc = "waitForm"
    /\ \/ /\ page' = [page EXCEPT !.formSeen = TRUE]
          /\ pc' = "setCheckboxes"
          /\ UNCHANGED << search, outcome, error >>
       \/ /\ SearchTimeout("none")
          /\ UNCHANGED page
    /\ UNCHANGED << formFilled, hasNextPage, submits, fills >>
    /\ UNCHANGED << listingRest, detailVars, cbVars, auxVars >>

SetCheckboxes ==
    /\ pc = "setCheckboxes"
    /\ page' = [page EXCEPT !.checks = setCheckboxes(@), !.cbSet = TRUE]
    /\ pc' = "fillFrom"
    /\ UNCHANGED << formFilled, hasNextPage, search, outcome, error, submits, fills >>
    /\ UNCHANGED << listingRest, detailVars, cbVars, auxVars >>

\* fillDateField(page, Selectors.DateFrom, endDate)
FillFrom ==
    /\ pc = "fillFrom"
    /\ page' = [page EXCEPT !.dateFrom = fillDateField(@, criteria.endDate)]
    /\ fills' = fills + 1
    /\ pc' = "fillTo"
    /\ UNCHANGED << formFilled, hasNextPage, search, outcome, error, submits >>
    /\ UNCHANGED << listingRest, detailVars, cbVars, auxVars >>

\* fillDateField(page, Selectors.DateTo, startDate)
FillTo ==
    /\ pc = "fillTo"
    /\ page' = [page EXCEPT !.dateTo = fillDateField(@, criteria.startDate)]
    /\ fills' = fills + 1
    /\ pc' = "submit"
    /\ UNCHANGED << formFilled, hasNextPage, search, outcome, error, submits >>
    /\ UNCHANGED << listingRest, detailVars, cbVars, auxVars >>

\* The page the submission navigates to: the registry's answer, or, when it
\* renders too late for the waits, neither a table nor a message.
ResultsPage(pg, rendered) ==
    [ pg EXCEPT !.kind = "results",
                !.table = rendered /\ site.table,
                !.msg = IF rendered THEN site.msg ELSE Null,
                !.cur = 1 ]

\* Promise.all([waitForNavigation, click(SubmitButton)])
Submit ==
    /\ pc = "submit"
    /\ submits' = submits + 1
    /\ \/ \E rendered \in BOOLEAN :
             /\ page' = ResultsPage(page, rendered)
             /\ pc' = "waitOutcome"
             /\ UNCHANGED << search, outcome, error >>
       \/ /\ SearchTimeout("none")
          /\ UNCHANGED page
    /\ UNCHANGED << formFilled, hasNextPage, fills >>
    /\ UNCHANGED << listingRest, detailVars, cbVars, auxVars >>

\* waitForFunction(.search-table || .tabs-info-message)
WaitOutcome ==
    /\ pc = "waitOutcome"
    /\ IF Appeared(page)
         THEN /\ pc' = "classify"
              /\ UNCHANGED << search, outcome, error >>
         ELSE SearchTimeout("Ambiguous")
    /\ UNCHANGED << formFilled, page, hasNextPage, submits, fills >>
    /\ UNCHANGED << listingRest, detailVars, cbVars, auxVars >>

\* formFilled = true is the statement after await performSearch(...): it is
\* reached when performSearch returned, and skipped when it threw e. The
\* variant sets the flag either way.
FormFilledAfterAny(e) == TRUE

FormFilledAfter(e) == IF e = "none" THEN TRUE ELSE formFilled

\* The two tests on errorText; on return the handler sets formFilled and
\* enters the pagination loop.
ClassifyOutcome ==
    /\ pc = "classify"
    /\ LET o == Classify(errorText(page)) IN
         /\ outcome' = o
         /\ error' = ErrorFor(o)
         /\ formFilled' = FormFilledAfter(ErrorFor(o))
         /\ IF ErrorFor(o) = "none"
              THEN /\ search' = "returned"
                   /\ searchDone' = TRUE
                   /\ hasNextPage' = TRUE
                   /\ pc' = "enqueue"
              ELSE /\ search' = "threw"
                   /\ pc' = "threw"
                   /\ UNCHANGED << hasNextPage, searchDone >>
    /\ UNCHANGED << page, submits, fills >>
    /\ UNCHANGED << site, criteria, retryCount, harvested, detailVars, cbVars, auxVars >>

\* ------------------------------------------------------------ pagination
\* The links 'table tbody tr td a' of result page p, one per row.
RowLinks(p) == { << p, r >> : r \in 1..site.pages[p] }

AllLinks == UNION { RowLinks(p) : p \in 1..Len(site.pages) }

\* Whether pg shows a result page of the listing.
OnResultPage(pg) ==
    pg.kind = "results" /\ pg.table /\ pg.cur \in 1..Len(site.pages)

\* The row links enqueueLinks finds on pg.
PageLinks(pg) == IF OnResultPage(pg) THEN RowLinks(pg.cur) ELSE {}

\* page.$('a.ui-paginator-next:not(.ui-state-disabled)'): an enabled "next"
\* control is on every result page but the last. The variant's selector
\* matches nothing.
PaginationNextNone(pg) == FALSE

PaginationNext(pg) == OnResultPage(pg) /\ pg.cur < Len(site.pages)

\* nextButton.click() and the settle delay: the next result page is shown.
\* The variant's click leaves the page as it is.
ClickNextStays(pg) == pg

ClickNext(pg) == IF pg.cur < Len(site.pages) THEN [pg EXCEPT !.cur = @ + 1] ELSE pg

Min(a, b) == IF a < b THEN a ELSE b

\* enqueueLinks({ selector: TableRowLink, label: 'detail' }): the request
\* queue keeps one request per URL.
EnqueueLinks ==
    /\ pc = "enqueue"
    /\ detail' = [ l \in (DOMAIN detail) \cup PageLinks(page) |->
                     IF l \in DOMAIN detail THEN detail[l] ELSE "queued" ]
    /\ harvested' = IF OnResultPage(page)
                      THEN [harvested EXCEPT ![page.cur] = Min(@ + 1, MaxHarvest)]
                      ELSE harvested
    /\ pc' = "next"
    /\ UNCHANGED << site, criteria, retryCount, formFilled, page, hasNextPage,
                    search, outcome, searchDone, error, submits, fills >>
    /\ UNCHANGED << sink, logged, exported, cbVars, auxVars >>

\* The rest of the loop body: look for the enabled "next" control, click it
\* and settle, or leave the loop and end the handler.
NextPage ==
    /\ pc = "next"
    /\ IF PaginationNext(page)
         THEN \/ /\ page' = ClickNext(page)
                 /\ pc' = "enqueue"
                 /\ UNCHANGED << hasNextPage, error >>
              \/ /\ pc' = "threw"
                 /\ error' = "TimeoutError"
                 /\ UNCHANGED << page, hasNextPage >>
         ELSE /\ hasNextPage' = FALSE
              /\ pc' = "done"
              /\ UNCHANGED << page, error >>
    /\ UNCHANGED << formFilled, search, outcome, submits, fills >>
    /\ UNCHANGED << listingRest, detailVars, cbVars, auxVars >>

\* ------------------------------------------------------------ the scheduler
\* The crawler's handling of an error thrown by the listing handler: no
\* retry of a NonRetryableError, else a retry while retries are left.
Reclaim ==
    /\ pc = "threw"
    /\ IF Retryable(error) /\ retryCount < MaxRetries
         THEN /\ retryCount' = retryCount + 1
              /\ pc' = "queued"
         ELSE /\ pc' = "failed"
              /\ UNCHANGED retryCount
    /\ UNCHANGED << site, criteria, harvested, formFilled, page, hasNextPage,
                    search, outcome, searchDone, error, submits, fills >>
    /\ UNCHANGED << detailVars, cbVars, auxVars >>

\* ------------------------------------------------------------ extractDetailData
\* Rows of a detail page the extraction of one page reads.
MaxDetailRows == 2

\* FIELD_MAPPINGS in the order of Object.entries: label text, canonical key.
FIELD_MAPPINGS ==
    << << << "Name/Title" >>, "nameTitle" >>,
       << << "Status" >>, "status" >>,
       << << "Application", " ", "date" >>, "applicationDate" >>,
       << << "Revelation", " ", "date" >>, "revelationDate" >>,
       << << "Application", " ", "number" >>, "applicationNumber" >>,
       << << "Category", " ", "of", " ", "rights" >>, "categoryOfRights" >>,
       << << "Registration", " ", "number" >>, "registrationNumber" >>,
       << << "Trademark", " ", "type" >>, "trademarkType" >> >>

\* String.prototype.includes on plain texts.
Contains(t, phrase) ==
    \E i \in 1..(Len(t) - Len(phrase) + 1) :
        SubSeq(t, i, i + Len(phrase) - 1) = phrase

\* replace(/\s+/g, ' '): every run of white space becomes one blank.
RECURSIVE Collapse(_)
Collapse(t) ==
    IF t = << >> THEN << >>
    ELSE IF IsSpace(Head(t))
      THEN IF Len(t) > 1 /\ IsSpace(t[2])
             THEN Collapse(Tail(t))
             ELSE << " " >> \o Collapse(Tail(t))
      ELSE << Head(t) >> \o Collapse(Tail(t))

\* labelCell.textContent?.trim().replace(/\s+/g, ' ') || ''
LabelText(cell) == Collapse(Trim(cell.text))

\* Object.entries(fieldMappings).find(([label]) => labelText.includes(label))?.[1]
\* from entry n on: the key of the first entry whose label the text holds.
RECURSIVE FindFrom(_, _)
FindFrom(labelText, n) ==
    IF n > Len(FIELD_MAPPINGS) THEN Null
    ELSE IF Contains(labelText, FIELD_MAPPINGS[n][1]) THEN Some(FIELD_MAPPINGS[n][2])
    ELSE FindFrom(labelText, n + 1)

fieldNameOf(labelText) == FindFrom(labelText, 1)

\* The text of the .highlight element of a value cell, trimmed; when there
\* is none, or it is empty, the text of the cell, trimmed and collapsed.
\* The variant always takes the text of the cell.
CellValueNoHighlight(cell) == Collapse(Trim(cell.text))

CellValue(cell) ==
    LET h == IF cell.highlight = Null THEN << >> ELSE Trim(cell.highlight[1])
    IN  IF h # << >> THEN h ELSE Collapse(Trim(cell.text))

\* result[fieldName] = value || null. The variant leaves out an empty value.
SetFieldSkipEmpty(res, key, value) ==
    IF value = << >> THEN res
    ELSE [ k \in (DOMAIN res) \cup {key} |-> IF k = key THEN Some(value) ELSE res[k] ]

SetField(res, key, value) ==
    [ k \in (DOMAIN res) \cup {key} |->
        IF k = key THEN (IF value = << >> THEN Null ELSE Some(value)) ELSE res[k] ]

\* The body of the for loop for cells[i], cells[i + 1] (i counted from 1).
ExtractPair(res, row, i) ==
    IF row[i].title /\ i + 1 <= Len(row)
      THEN LET fieldName == fieldNameOf(LabelText(row[i]))
           IN  IF fieldName # Null
                 THEN SetField(res, fieldName[1], CellValue(row[i + 1]))
                 ELSE res
      ELSE res

\* for (let i = 0; i < cells.length; i += 2)
RECURSIVE ExtractFrom(_, _, _)
ExtractFrom(res, row, i) ==
    IF i > Len(row) THEN res
    ELSE ExtractFrom(ExtractPair(res, row, i), row, i + 2)

ExtractRow(res, row) == ExtractFrom(res, row, 1)

\* rows.forEach(...)
RECURSIVE ExtractRows(_, _)
ExtractRows(res, rows) ==
    IF rows = << >> THEN res
    ELSE ExtractRows(ExtractRow(res, Head(rows)), Tail(rows))

extractDetailData(rows) == ExtractRows(<< >>, rows)

\* data && Object.keys(data).length; the variant pushes every result.
ShouldPushAlways(data) == TRUE

ShouldPush(data) == DOMAIN data # {}

\* Dataset.pushData(data): the record is added to the records held. The
\* variant keeps the new record only.
PushDataReplace(held, url, data) == { [url |-> url, data |-> data] }

PushData(held, url, data) == held \cup { [url |-> url, data |-> data] }

\* The cells of a detail page: a label cell carries the class detail-title,
\* a value cell may hold a .highlight element.
LabelCell(text) == [title |-> TRUE, text |-> text, highlight |-> Null]
PlainCell(text) == [title |-> FALSE, text |-> text, highlight |-> Null]
HighlightCell(text, hl) == [title |-> FALSE, text |-> text, highlight |-> Some(hl)]

\* Rows a detail page may hold.
DetailRows ==
    { << LabelCell(<< "Name/Title" >>),
         HighlightCell(<< "Mark", ":", " ", "ACME", " " >>, << " ", "ACME", " " >>) >>,
      << LabelCell(<< "\n", "Status", "\t" >>),
         PlainCell(<< " ", "Registered", " ", "\n", "2020", " " >>) >>,
      << LabelCell(<< "Status" >>), PlainCell(<< " " >>) >>,
      << LabelCell(<< "Application", "\t", " ", "date", ":" >>),
         HighlightCell(<< " ", "2024-01-05" >>, << " " >>) >>,
      << LabelCell(<< "Owner" >>), PlainCell(<< "ACME" >>) >>,
      << PlainCell(<< "Status" >>), PlainCell(<< "Expired" >>) >>,
      << LabelCell(<< "Application", " ", "number" >>), PlainCell(<< "Z.1" >>),
         LabelCell(<< "Trademark", " ", "type" >>) >>,
      << LabelCell(<< "Revelation", " ", "date", " ", "/", " ", "Application", " ", "date" >>),
         PlainCell(<< "2024-02-02" >>) >> }

DetailPages == UNION { [1..n -> DetailRows] : n \in 0..MaxDetailRows }

\* ------------------------------------------------------------ detail handler
\* What happens inside the try block of the 'detail' handler: a wait or the
\* extraction throws, or the page renders a panel with mapped labels, or one
\* with none.
DetailEvents == { "loadStateThrows", "panelWaitThrows", "extractThrows",
                  "data", "noData" }

Throws(ev) == ev \in { "loadStateThrows", "panelWaitThrows", "extractThrows" }

\* The detail pages of a crawl: one exposing Name/Title, Status and
\* Application date, one exposing no mapped label.
DataPage ==
    << << LabelCell(<< "Name/Title" >>),
          HighlightCell(<< "Mark", ":", " ", "ACME", " " >>, << " ", "ACME", " " >>) >>,
       << LabelCell(<< "\n", "Status", "\t" >>),
          PlainCell(<< " ", "Registered", " ", "\n", "2020", " " >>) >>,
       << LabelCell(<< "Application", " ", "date" >>), PlainCell(<< "2024-01-05" >>) >> >>

NoDataPage == << << LabelCell(<< "Owner" >>), PlainCell(<< "ACME" >>) >> >>

RenderedPage(ev) == IF ev = "data" THEN DataPage ELSE NoDataPage

\* What extractDetailData returns on the page of an event.
Extraction == [ ev \in { "data", "noData" } |-> extractDetailData(RenderedPage(ev)) ]

\* The status the handler leaves its request in: the catch block swallows
\* every error of the try block. The variant lets the error escape.
DetailStatusRethrow(ev, data) ==
    CASE Throws(ev) -> "failed"
      [] ShouldPush(data) -> "stored"
      [] OTHER -> "skipped"

DetailStatus(ev, data) ==
    CASE Throws(ev) -> "logged"
      [] ShouldPush(data) -> "stored"
      [] OTHER -> "skipped"

DetailHandler(l, ev) ==
    LET data == IF Throws(ev) THEN << >> ELSE Extraction[ev]
    IN  /\ l \in DOMAIN detail
        /\ detail[l] = "queued"
        /\ detail' = [detail EXCEPT ![l] = DetailStatus(ev, data)]
        /\ sink' = IF ~Throws(ev) /\ ShouldPush(data) THEN PushData(sink, l, data) ELSE sink
        /\ logged' = IF Throws(ev) THEN logged \cup {l} ELSE logged
        /\ UNCHANGED << site, criteria, retryCount, harvested, formFilled, pc, page,
                        hasNextPage, search, outcome, searchDone, error, submits, fills >>
        /\ UNCHANGED << exported, cbVars, auxVars >>

\* The links whose record a set of records holds.
Urls(records) == { r.url : r \in records }

\* ------------------------------------------------------------ export
\* crawler.run resolves once no request is pending or running. The variant
\* does not wait for the detail requests.
RunFinishedListingOnly == pc \in {"done", "failed"}

RunFinished ==
    /\ pc \in {"done", "failed"}
    /\ \A l \in DOMAIN detail : detail[l] # "queued"

\* Dataset.exportToJSON('output.json')
Export ==
    /\ RunFinished
    /\ exported = Null
    /\ exported' = Some(sink)
    /\ UNCHANGED << site, criteria, retryCount, harvested, formFilled, pc, page,
                    hasNextPage, search, outcome, searchDone, error, submits, fills >>
    /\ UNCHANGED << detail, sink, logged, cbVars, auxVars >>

ListingStep ==
    \/ StartHandler
    \/ WaitForm
    \/ SetCheckboxes
    \/ FillFrom
    \/ FillTo
    \/ Submit
    \/ WaitOutcome
    \/ ClassifyOutcome
    \/ EnqueueLinks
    \/ NextPage
    \/ Reclaim

DetailStep == \E l \in DOMAIN detail, ev \in DetailEvents : DetailHandler(l, ev)

Next == ListingStep \/ DetailStep \/ Export

Spec == Init /\ [][Next]_vars

\* The runs followed to their end: a results table comes without a message.
FairInit ==
    /\ site \in { s \in CrawlSites : s.table => s.msg = Null }
    /\ criteria \in CrawlCriteria
    /\ InitRun
    /\ InitIdle

\* The scheduler keeps dispatching while requests are pending, and every
\* wait of the handlers is bounded by a timeout.
FairSpec ==
    /\ FairInit
    /\ [][Next]_vars
    /\ WF_vars(ListingStep) /\ WF_vars(DetailStep) /\ WF_vars(Export)

\* The listing task on its own: detail requests stay queued.
ListingSpec == ListingInit /\ [][ListingStep]_vars

FairListingSpec == ListingSpec /\ WF_vars(ListingStep)

\* ------------------------------------------------------------ validateArgs
\* A command-line argument is a sequence of characters.
Digits == { "0", "1", "2", "3", "4", "5", "6", "7", "8", "9" }

DigitValue(c) ==
    CASE c = "0" -> 0 [] c = "1" -> 1 [] c = "2" -> 2 [] c = "3" -> 3 [] c = "4" -> 4
      [] c = "5" -> 5 [] c = "6" -> 6 [] c = "7" -> 7 [] c = "8" -> 8 [] c = "9" -> 9

\* The number a run of digits writes.
RECURSIVE NumberOf(_)
NumberOf(ds) ==
    IF ds = << >> THEN 0
    ELSE 10 * NumberOf(SubSeq(ds, 1, Len(ds) - 1)) + DigitValue(ds[Len(ds)])

\* How many characters /^\d{1,n}/ matches at the start of str (0: no match).
RECURSIVE DigitRun(_, _)
DigitRun(str, n) ==
    IF n = 0 \/ str = << >> \/ Head(str) \notin Digits THEN 0
    ELSE 1 + DigitRun(Tail(str), n - 1)

IsLeapYear(y) == (y % 4 = 0 /\ y % 100 # 0) \/ y % 400 = 0

DaysInMonth(y, m) ==
    IF m = 2 THEN (IF IsLeapYear(y) THEN 29 ELSE 28)
    ELSE IF m \in {4, 6, 9, 11} THEN 30 ELSE 31

\* Whether str starts with the character c.
StartsWith(str, c) == str # << >> /\ Head(str) = c

Drop(str, n) == SubSeq(str, n + 1, Len(str))

\* parse(dateStr, 'yyyy-MM-dd', new Date()) of date-fns: the token yyyy takes
\* one to four digits, MM and dd one or two; the literal '-' has to follow;
\* nothing may be left over; month and day have to exist in the calendar.
\* Null stands for Invalid Date, else << year, month, day >>.
parse(dateStr) ==
    LET ny == DigitRun(dateStr, 4)
        r1 == Drop(dateStr, ny)
        r2 == Drop(r1, 1)
        nm == DigitRun(r2, 2)
        r3 == Drop(r2, nm)
        r4 == Drop(r3, 1)
        nd == DigitRun(r4, 2)
        r5 == Drop(r4, nd)
        y  == NumberOf(SubSeq(dateStr, 1, ny))
        m  == NumberOf(SubSeq(r2, 1, nm))
        d  == NumberOf(SubSeq(r4, 1, nd))
    IN  IF /\ ny > 0 /\ StartsWith(r1, "-")
           /\ nm > 0 /\ StartsWith(r3, "-")
           /\ nd > 0 /\ r5 = << >>
           /\ m \in 1..12
           /\ d \in 1..DaysInMonth(y, m)
          THEN Some(<< y, m, d >>)
          ELSE Null

\* !isNaN(parsed.getTime())
isValidDate(dateStr) == parse(dateStr) # Null

\* parsedStart > parsedEnd on two dates.
Later(a, b) ==
    \/ a[1] > b[1]
    \/ a[1] = b[1] /\ a[2] > b[2]
    \/ a[1] = b[1] /\ a[2] = b[2] /\ a[3] > b[3]

\* The test of the order of the two dates.
OrderError(startDate, endDate) == Later(parse(startDate)[1], parse(endDate)[1])

\* !startDate: the argument is missing or the empty string.
Missing(argv, n) == Len(argv) < n \/ argv[n] = << >>

\* How validateArgs ends for process.argv.slice(2) = argv: with one of its
\* three error messages and exit code 1, or by returning the two arguments.
validateArgs(argv) ==
    IF Missing(argv, 1) \/ Missing(argv, 2) THEN "usage"
    ELSE IF ~isValidDate(argv[1]) \/ ~isValidDate(argv[2]) THEN "format"
    ELSE IF OrderError(argv[1], argv[2]) THEN "order"
    ELSE "ok"

\* Arguments a caller may give.
ArgTexts ==
    { << "2", "0", "2", "4", "-", "0", "1", "-", "0", "1" >>,
      << "2", "0", "2", "4", "-", "0", "1", "-", "3", "1" >>,
      << "2", "0", "2", "4", "-", "0", "2", "-", "2", "9" >>,
      << "2", "0", "2", "4", "-", "0", "2", "-", "3", "0" >>,
      << "2", "0", "2", "3", "-", "0", "2", "-", "2", "9" >>,
      << "2", "0", "2", "4", "-", "1", "3", "-", "0", "1" >>,
      << "2", "0", "2", "4", "-", "1", "-", "5" >>,
      << "0", "1", "/", "0", "2", "/", "2", "0", "2", "4" >>,
      << "2", "0", "2", "4", "-", "0", "1", "-", "0", "1", "x" >>,
      << >> }

ArgLists == { << >> } \cup { << a >> : a \in ArgTexts }
               \cup { << a, b >> : a, b \in ArgTexts }
               \cup { << a, b, a >> : a, b \in ArgTexts }

\* The process is started with argv; the site has two result pages.
ArgsInit ==
    /\ site = [ table |-> TRUE, msg |-> Null, pages |-> << 1, 1 >>,
                checks |-> [i \in 1..NumCheckboxes |-> i \in {2, 4}] ]
    /\ criteria = [startDate |-> << >>, endDate |-> << >>]
    /\ InitRun
    /\ detail = << >>
    /\ dpage = << >>
    /\ rowIdx = 0
    /\ result = << >>
    /\ cli \in { [argv |-> a, status |-> "pending"] : a \in ArgLists }

\* const { startDate, endDate } = validateArgs(): the process exits or the
\* two arguments become the criteria of the crawl.
ValidateArgs ==
    /\ cli.status = "pending"
    /\ cli' = [cli EXCEPT !.status = validateArgs(cli.argv)]
    /\ criteria' = IF validateArgs(cli.argv) = "ok"
                     THEN [startDate |-> cli.argv[1], endDate |-> cli.argv[2]]
                     ELSE criteria
    /\ UNCHANGED << site, formFilled, pc, retryCount, page, hasNextPage, search, outcome,
                    searchDone, error, submits, fills, harvested, detailVars, cbVars,
                    dpage, rowIdx, result >>

ArgsNext == ValidateArgs \/ Next

ArgsSpec == ArgsInit /\ [][ArgsNext]_vars

\* ------------------------------------------------------------ the detail handler, row by row
\* One 'detail' request on every detail page, one row of the table per step.
DetailLink == << 1, 1 >>

DetailInit ==
    /\ site = [ table |-> TRUE, msg |-> Null, pages |-> << 1 >>,
                checks |-> [i \in 1..NumCheckboxes |-> i \in {2, 4}] ]
    /\ criteria \in CrawlCriteria
    /\ InitRun
    /\ detail = [l \in {DetailLink} |-> "queued"]
    /\ dpage \in DetailPages
    /\ rowIdx = 0
    /\ result = << >>
    /\ cli = [argv |-> << criteria.startDate, criteria.endDate >>, status |-> "ok"]

dtRest ==
    << site, criteria, formFilled, pc, retryCount, page, hasNextPage, search, outcome,
       searchDone, error, submits, fills, harvested, logged, exported, cbVars, cli >>

\* page.evaluate is entered: const result = {}.
ExtractStart ==
    /\ detail[DetailLink] = "queued"
    /\ rowIdx = 0
    /\ rowIdx' = 1
    /\ result' = << >>
    /\ UNCHANGED << dpage, detail, sink, dtRest >>

\* One call of the callback of rows.forEach.
ExtractRowStep ==
    /\ rowIdx \in 1..Len(dpage)
    /\ result' = ExtractRow(result, dpage[rowIdx])
    /\ rowIdx' = rowIdx + 1
    /\ UNCHANGED << dpage, detail, sink, dtRest >>

\* return result, then the test on the keys, pushData or the warning.
StoreOrWarn ==
    /\ detail[DetailLink] = "queued"
    /\ rowIdx = Len(dpage) + 1
    /\ detail' = [detail EXCEPT ![DetailLink] = DetailStatus("data", result)]
    /\ sink' = IF ShouldPush(result) THEN PushData(sink, DetailLink, result) ELSE sink
    /\ UNCHANGED << dpage, rowIdx, result, dtRest >>

DetailNext == ExtractStart \/ ExtractRowStep \/ StoreOrWarn

DetailSpec == DetailInit /\ [][DetailNext]_vars

\* The extraction has returned.
Extracted == rowIdx = Len(dpage) + 1 /\ rowIdx > 0

\* ------------------------------------------------------------ setCheckboxes, step by step
\* Two applications of setCheckboxes in a row to one form, from every
\* checked state of its controls, one loop iteration per step.
CheckboxInit ==
    /\ site \in { [table |-> TRUE, msg |-> Null, pages |-> << 0 >>, checks |-> c] :
                    c \in CheckStates }
    /\ criteria \in CrawlCriteria
    /\ InitRun
    /\ InitIdle

cbRest ==
    << site, criteria, formFilled, pc, retryCount, hasNextPage, search, outcome,
       searchDone, error, submits, fills, harvested, detail, sink, logged, exported,
       auxVars >>

\* page.$$(Selectors.CheckboxInput): an application starts.
CheckboxStart ==
    /\ cbPass \in {0, 1}
    /\ cbIdx = IF cbPass = 0 THEN 0 ELSE NumCheckboxes + 1
    /\ cbPass' = cbPass + 1
    /\ cbIdx' = 1
    /\ toggles' = 0
    /\ afterFirst' = page.checks
    /\ UNCHANGED << page, cbRest >>

\* One iteration of the for loop.
CheckboxLoop ==
    /\ cbPass \in {1, 2}
    /\ cbIdx \in 1..NumCheckboxes
    /\ page' = [page EXCEPT !.checks = CheckboxIter(@, cbIdx)]
    /\ toggles' = IF ClicksBox(page.checks, cbIdx) THEN toggles + 1 ELSE toggles
    /\ cbIdx' = cbIdx + 1
    /\ UNCHANGED << cbPass, afterFirst, cbRest >>

CheckboxNext == CheckboxStart \/ CheckboxLoop

CheckboxSpec == CheckboxInit /\ [][CheckboxNext]_vars

\* An application has returned: the first, and the second.
Returned(n) == cbPass > n \/ (cbPass = n /\ cbIdx = NumCheckboxes + 1)

\* ============================================================ claims
\* Whether the message element of pg carries the phrase, read case-blind.
MessageHas(pg, phrase) ==
    /\ pg.msg # Null
    /\ \E i \in 1..Len(pg.msg[1]) : \E j \in i..Len(pg.msg[1]) :
          ToLowerCase(SubSeq(pg.msg[1], i, j)) = phrase

InLoop == pc \in {"enqueue", "next"}

\* C1: once an invocation of performSearch has returned, no step of any
\* later attempt of the listing task sets the checkboxes, fills a date
\* field or clicks the submit control again.
C1_NoResubmitAfterSuccess ==
    [][ searchDone =>
          /\ submits' = submits
          /\ fills' = fills
          /\ pc' \notin {"waitForm", "setCheckboxes", "fillFrom", "fillTo", "submit"} ]_vars

\* A retry of the listing task that ran after the search had returned, and
\* ended without a second submission.
C1_Witness ==
    /\ searchDone
    /\ retryCount > 0
    /\ search = "idle"
    /\ pc = "done"
    /\ submits = 1

\* C2: when the pagination loop that was started on the result pages has
\* ended, every result page has been harvested exactly once and the links
\* enqueued are exactly the row links of all pages.
C2_ExactUnionOnce ==
    (pc = "done" /\ OnResultPage(page)) =>
        /\ \A p \in 1..Len(site.pages) : harvested[p] = 1
        /\ DOMAIN detail = AllLinks

C2_Witness ==
    /\ pc = "done"
    /\ OnResultPage(page)
    /\ Len(site.pages) >= 2
    /\ \A p \in 1..Len(site.pages) : site.pages[p] > 0
    /\ DOMAIN detail = AllLinks

\* C3: every run of the pagination loop ends: it finds no enabled "next"
\* control, sets hasNextPage to false and the task is done, unless a step
\* of the loop throws and ends the attempt.
C3_LoopTerminates ==
    InLoop ~> \/ (pc = "done" /\ ~hasNextPage /\ ~PaginationNext(page))
              \/ pc = "threw"

C3_Witness ==
    /\ pc = "done"
    /\ ~hasNextPage
    /\ OnResultPage(page)
    /\ page.cur = Len(site.pages)
    /\ page.cur >= 2
    /\ retryCount = 0

\* C4: a message with "no results found" or "too many results found" ends
\* the listing task with a NonRetryableError: it is never retried, no page
\* is harvested, no link is enqueued, and the export holds no record.
C4_TerminalQueryError ==
    /\ ( /\ page.kind = "results"
         /\ pc \notin {"waitOutcome", "classify"}
         /\ MessageHas(page, NoResultsPhrase) \/ MessageHas(page, TooManyPhrase) )
       => error = "NonRetryableError"
    /\ error = "NonRetryableError" =>
         /\ pc \in {"threw", "failed"}
         /\ ~formFilled
         /\ \A p \in 1..Len(site.pages) : harvested[p] = 0
         /\ detail = << >>
         /\ sink = {}
         /\ exported \in {Null, Some({})}

C4_Witness ==
    /\ MessageHas(page, NoResultsPhrase)
    /\ error = "NonRetryableError"
    /\ pc = "failed"
    /\ exported = Some({})

\* C5: every ended invocation of performSearch that reached the page after
\* submission has produced exactly the outcome its page state calls for:
\* Ambiguous without table and message, EmptyResult for the "no results"
\* phrase (also beside the other phrase), OverflowResult for the "too
\* many" phrase alone, Success otherwise.
C5_ClassificationTotal ==
    (search \in {"returned", "threw"} /\ page.kind = "results") =>
        /\ outcome \in {"Success", "EmptyResult", "OverflowResult", "Ambiguous"}
        /\ outcome = "Ambiguous" <=> (~page.table /\ page.msg = Null)
        /\ outcome = "EmptyResult" <=> MessageHas(page, NoResultsPhrase)
        /\ outcome = "OverflowResult" <=>
              (MessageHas(page, TooManyPhrase) /\ ~MessageHas(page, NoResultsPhrase))

C5_Witness ==
    /\ search = "threw"
    /\ MessageHas(page, TooManyPhrase)
    /\ MessageHas(page, NoResultsPhrase)
    /\ outcome = "EmptyResult"

\* C6: an error thrown by performSearch is non-retryable exactly when the
\* outcome is EmptyResult or OverflowResult; every timeout of its waits
\* is a retryable error.
C6_RetrySignal ==
    search = "threw" =>
        /\ ~Retryable(error) <=> outcome \in {"EmptyResult", "OverflowResult"}
        /\ outcome \in {"none", "Ambiguous"} => (error = "TimeoutError" /\ Retryable(error))
        /\ error # "none"

C6_Witness ==
    /\ search = "threw"
    /\ outcome = "OverflowResult"
    /\ ~Retryable(error)
    /\ retryCount > 0

\* C7: after setCheckboxes has returned, every checkbox control of the form
\* is checked if and only if its id is in TARGET_CHECKBOXES.
C7_EveryControlMatchesTargets ==
    Returned(1) =>
        \A i \in 1..NumCheckboxes :
            page.checks[i] <=> (CheckboxIds[i] \in TARGET_CHECKBOXES)

\* What setCheckboxes does establish: every control that has an id is
\* checked if and only if its id is in TARGET_CHECKBOXES, and a control
\* without an id keeps the state it had.
ControlsWithIdMatchTargets ==
    Returned(1) =>
        \A i \in 1..NumCheckboxes :
            IF CheckboxIds[i] # ""
              THEN page.checks[i] <=> (CheckboxIds[i] \in TARGET_CHECKBOXES)
              ELSE page.checks[i] = site.checks[i]

\* C8: setCheckboxes clicks a control only when its checked state differs
\* from the desired one, and a second application to the form the first
\* one left makes no click and leaves the same checked states.
C8_Idempotent ==
    /\ [](Returned(2) => (toggles = 0 /\ page.checks = afterFirst))
    /\ [][ \A i \in 1..NumCheckboxes :
             page.checks'[i] # page.checks[i] =>
                page.checks[i] # (CheckboxIds[i] \in TARGET_CHECKBOXES) ]_vars

C8_Witness ==
    /\ Returned(2)
    /\ afterFirst # site.checks
    /\ toggles = 0

\* C9: when performSearch is about to click the submit control, the form
\* container has appeared, setCheckboxes has run, and the "from" field
\* holds exactly the end date and the "to" field exactly the start date.
C9_FormStateAtSubmit ==
    pc = "submit" =>
        /\ page.formSeen
        /\ page.cbSet
        /\ \A i \in 1..NumCheckboxes :
              CheckboxIds[i] # "" =>
                 (page.checks[i] <=> (CheckboxIds[i] \in TARGET_CHECKBOXES))
        /\ page.dateFrom = criteria.endDate
        /\ page.dateTo = criteria.startDate

C9_Witness ==
    /\ pc = "submit"
    /\ criteria.startDate # criteria.endDate
    /\ page.dateFrom = criteria.endDate
    /\ page.checks # site.checks
    /\ retryCount > 0

\* C10: a detail task whose try block threw has been logged and has ended
\* without an error of its own, no record of it is in the sink or in the
\* export, the listing task is as it was, and the run can still process
\* every other queued detail task and export.
C10_Contained ==
    /\ \A l \in DOMAIN detail :
          /\ detail[l] \in {"queued", "stored", "skipped", "logged"}
          /\ l \in logged <=> detail[l] = "logged"
          /\ l \in logged => l \notin Urls(sink)
          /\ (detail[l] = "queued" /\ exported = Null) =>
                ENABLED DetailHandler(l, "data")
    /\ logged \subseteq DOMAIN detail
    /\ exported # Null => Urls(exported[1]) \cap logged = {}
    /\ (RunFinished /\ exported = Null) => ENABLED Export

C10_DetailFailureContained ==
    /\ []C10_Contained
    /\ [][ logged' # logged =>
              UNCHANGED << pc, error, retryCount, formFilled, sink, exported >> ]_vars

C10_Witness ==
    /\ exported # Null
    /\ logged # {}
    /\ exported[1] # {}
    /\ pc = "done"

\* C11: every record the sink holds has at least one field, and a detail
\* page whose extraction yields no mapped key is ended with the warning and
\* nothing of it is in the sink.
C11_NoEmptyRecord ==
    /\ \A r \in sink : DOMAIN r.data # {}
    /\ (detail[DetailLink] # "queued" /\ DOMAIN extractDetailData(dpage) = {}) =>
          /\ detail[DetailLink] = "skipped"
          /\ sink = {}

C11_Witness ==
    /\ detail[DetailLink] = "skipped"
    /\ dpage # << >>
    /\ sink = {}

\* The canonical keys of the mapping table.
CanonicalKeys == { FIELD_MAPPINGS[n][2] : n \in 1..Len(FIELD_MAPPINGS) }

\* The (label, value) pairs of a page: row r, cells i and i + 1, i odd, the
\* first of them carrying the class detail-title.
LabelPairs(pg) ==
    { pr \in UNION { { << r, i >> : i \in 1..Len(pg[r]) } : r \in 1..Len(pg) } :
        /\ pr[2] % 2 = 1
        /\ pr[2] + 1 <= Len(pg[pr[1]])
        /\ pg[pr[1]][pr[2]].title }

\* The label of the pair matches the entry of key: the entry is the first of
\* the table whose label text the normalized label holds.
Resolves(pg, pr, key) ==
    \E n \in 1..Len(FIELD_MAPPINGS) :
        /\ FIELD_MAPPINGS[n][2] = key
        /\ Contains(LabelText(pg[pr[1]][pr[2]]), FIELD_MAPPINGS[n][1])
        /\ \A m \in 1..(n - 1) :
              ~Contains(LabelText(pg[pr[1]][pr[2]]), FIELD_MAPPINGS[m][1])

PairsOf(pg, key) == { pr \in LabelPairs(pg) : Resolves(pg, pr, key) }

\* Document order of pairs.
Before(p, q) == p[1] < q[1] \/ (p[1] = q[1] /\ p[2] < q[2])

\* The value of the last pair of the page that matches key.
MatchedValue(pg, key) ==
    LET last == CHOOSE p \in PairsOf(pg, key) :
                    \A q \in PairsOf(pg, key) : q = p \/ Before(q, p)
    IN  CellValue(pg[last[1]][last[2] + 1])

\* C12: in the record extractDetailData returns, a canonical key is present
\* if and only if the label of some (label, value) pair of the page matched
\* its mapping entry; its value is null exactly when the matched value is
\* empty after normalization, and that non-empty text otherwise; nothing
\* else is a key of the record.
C12_KeysAndNulls ==
    Extracted =>
        /\ DOMAIN result \subseteq CanonicalKeys
        /\ \A key \in CanonicalKeys :
              key \in DOMAIN result <=> PairsOf(dpage, key) # {}
        /\ \A key \in DOMAIN result :
              /\ result[key] = Null <=> MatchedValue(dpage, key) = << >>
              /\ MatchedValue(dpage, key) # << >> =>
                    result[key] = Some(MatchedValue(dpage, key))
        /\ result = extractDetailData(dpage)

C12_Witness ==
    /\ Extracted
    /\ \E key \in DOMAIN result : result[key] = Null
    /\ \E key \in DOMAIN result : result[key] # Null
    /\ \E key \in CanonicalKeys : key \notin DOMAIN result

\* The value cell of the last pair of the page that matches key.
MatchedCell(pg, key) ==
    LET last == CHOOSE p \in PairsOf(pg, key) :
                    \A q \in PairsOf(pg, key) : q = p \/ Before(q, p)
    IN  pg[last[1]][last[2] + 1]

\* value || null
OrNull(value) == IF value = << >> THEN Null ELSE Some(value)

\* C13 as stated: for every matched field whose value cell has a .highlight
\* element, the record holds the trimmed text of that element, and not the
\* text of the whole cell when the two differ.
C13_HighlightWhenElementExists ==
    Extracted =>
        \A key \in DOMAIN result :
            LET cell == MatchedCell(dpage, key)
            IN  cell.highlight # Null =>
                    /\ result[key] = OrNull(Trim(cell.highlight[1]))
                    /\ Trim(cell.highlight[1]) # Collapse(Trim(cell.text)) =>
                          result[key] # OrNull(Collapse(Trim(cell.text)))

\* C13, amended: for every matched field whose value cell has a .highlight
\* element with non-empty trimmed text, the record holds that trimmed text,
\* and not the text of the whole cell when the two differ; for every other
\* matched field it holds the trimmed and collapsed text of the whole cell,
\* or null when that is empty.
C13_HighlightPreferred ==
    Extracted =>
        \A key \in DOMAIN result :
            LET cell == MatchedCell(dpage, key)
                whole == Collapse(Trim(cell.text))
            IN  IF cell.highlight # Null /\ Trim(cell.highlight[1]) # << >>
                  THEN /\ result[key] = Some(Trim(cell.highlight[1]))
                       /\ Trim(cell.highlight[1]) # whole => result[key] # Some(whole)
                  ELSE result[key] = OrNull(whole)

C13_Witness ==
    /\ Extracted
    /\ \E key \in DOMAIN result :
          LET cell == MatchedCell(dpage, key)
          IN  /\ cell.highlight # Null
              /\ Trim(cell.highlight[1]) # << >>
              /\ Trim(cell.highlight[1]) # Collapse(Trim(cell.text))
              /\ result[key] = Some(Trim(cell.highlight[1]))
    /\ \E key \in DOMAIN result :
          LET cell == MatchedCell(dpage, key)
          IN  /\ cell.highlight # Null
              /\ Trim(cell.highlight[1]) = << >>
              /\ result[key] = Some(Collapse(Trim(cell.text)))

\* The orders the rows of a page of n rows can be rendered in.
Perms(n) == { f \in [1..n -> 1..n] : \A i, j \in 1..n : f[i] = f[j] => i = j }

Permute(pg, f) == [ i \in 1..Len(pg) |-> pg[f[i]] ]

\* Two pairs of the page match one key and carry different values.
Clash(pg) ==
    \E key \in CanonicalKeys : \E p, q \in PairsOf(pg, key) :
        CellValue(pg[p[1]][p[2] + 1]) # CellValue(pg[q[1]][q[2] + 1])

\* C14: the record extractDetailData returns is the same for every order of
\* the rows of the page, also when the labels of two rows match the same
\* mapping entry.
C14_RowOrderIndependent ==
    Extracted =>
        \A f \in Perms(Len(dpage)) : extractDetailData(Permute(dpage, f)) = result

\* Without two pairs of different values for one key the record is the same
\* for every order of the rows.
OrderIndependentWithoutClash ==
    (Extracted /\ ~Clash(dpage)) =>
        \A f \in Perms(Len(dpage)) : extractDetailData(Permute(dpage, f)) = result

\* The run is over: the search was a Success, the listing task ended without
\* error, every detail page rendered a panel with a mapped label, and the
\* records were exported.
CrawlComplete ==
    /\ exported # Null
    /\ searchDone
    /\ pc = "done"
    /\ \A l \in DOMAIN detail : detail[l] = "stored"

\* One record per row of every result page, each with exactly the canonical
\* keys of the labels of its detail page.
OneRecordPerRow(records) ==
    /\ Urls(records) = AllLinks
    /\ Cardinality(records) = Cardinality(AllLinks)
    /\ \A r \in records :
          DOMAIN r.data = { "nameTitle", "status", "applicationDate" }

\* C15: after a Success search over the result pages of the site, with
\* every detail page rendering and exposing a mapped label, the exported
\* array holds exactly one record per row of every result page, each with
\* exactly the canonical keys of the labels of its detail page.
C15_EndToEnd == CrawlComplete => OneRecordPerRow(exported[1])

\* The same, for runs whose last listing attempt made the search itself.
EndToEndOnResultPage ==
    (CrawlComplete /\ OnResultPage(page)) => OneRecordPerRow(exported[1])

\* The listing task and every enqueued detail task are in a final state.
AllFinal ==
    /\ pc \in {"done", "failed"}
    /\ \A l \in DOMAIN detail : detail[l] \in {"stored", "skipped", "logged"}

\* C16: the export happens, and once; when it happens the listing task and
\* every enqueued detail task are in a final state and the exported array is
\* the set of records the sink accepted; afterwards neither the export nor
\* the sink changes.
C16_ExportOnceAtEnd ==
    /\ [](exported # Null => (AllFinal /\ exported[1] = sink))
    /\ [][exported' # exported =>
             (exported = Null /\ AllFinal /\ exported' = Some(sink) /\ sink' = sink)]_vars
    /\ [][exported # Null => (exported' = exported /\ sink' = sink)]_vars
    /\ <>(exported # Null)

C16_Witness ==
    /\ exported # Null
    /\ Cardinality(exported[1]) = Cardinality(AllLinks)
    /\ exported[1] # {}
    /\ logged = {}

\* The argument is written YYYY-MM-DD, four, two and two digits, and names
\* a day of the calendar.
IsYMD(str) ==
    /\ Len(str) = 10
    /\ \A i \in {1, 2, 3, 4, 6, 7, 9, 10} : str[i] \in Digits
    /\ str[5] = "-" /\ str[8] = "-"
    /\ NumberOf(SubSeq(str, 6, 7)) \in 1..12
    /\ NumberOf(SubSeq(str, 9, 10)) \in
          1..DaysInMonth(NumberOf(SubSeq(str, 1, 4)), NumberOf(SubSeq(str, 6, 7)))

YMD(str) == << NumberOf(SubSeq(str, 1, 4)), NumberOf(SubSeq(str, 6, 7)),
               NumberOf(SubSeq(str, 9, 10)) >>

\* No step of the crawl has run.
NothingCrawled ==
    /\ pc = "queued"
    /\ submits = 0 /\ fills = 0
    /\ detail = << >> /\ sink = {}
    /\ exported = Null

\* C17: validateArgs returns for exactly the argument lists whose first two
\* arguments are valid YYYY-MM-DD dates with startDate <= endDate; for every
\* other list the process exits with an error and no step of the crawl
\* runs: nothing is submitted, stored or exported.
C17_AcceptsExactlyValidPairs ==
    cli.status # "pending" =>
        /\ cli.status = "ok" <=>
              /\ Len(cli.argv) >= 2
              /\ IsYMD(cli.argv[1]) /\ IsYMD(cli.argv[2])
              /\ ~Later(YMD(cli.argv[1]), YMD(cli.argv[2]))
        /\ cli.status # "ok" => NothingCrawled

\* What holds: validateArgs returns for exactly the lists whose first two
\* arguments date-fns parses, the first not later than the second, and no
\* step of the crawl runs after an exit.
AcceptsExactlyParsedPairs ==
    /\ cli.status = "pending" => NothingCrawled
    /\ cli.status \notin {"pending", "ok"} => NothingCrawled
    /\ cli.status # "pending" =>
          (cli.status = "ok" <=>
              /\ Len(cli.argv) >= 2
              /\ parse(cli.argv[1]) # Null /\ parse(cli.argv[2]) # Null
              /\ ~Later(parse(cli.argv[1])[1], parse(cli.argv[2])[1]))
    /\ \A n \in 1..2 : (Len(cli.argv) >= n /\ IsYMD(cli.argv[n])) =>
          parse(cli.argv[n]) = Some(YMD(cli.argv[n]))

\* C18: whenever the pagination loop runs in an attempt of the listing
\* task, the page of that attempt is in the Success state: the search was
\* submitted on it by this attempt's performSearch, which returned.
C18_LoopOnSuccessPage ==
    InLoop => (page.kind = "results" /\ search = "returned" /\ outcome = "Success")

\* What holds: the loop of the attempt that made the search runs on the
\* Success page, and a request is added to the queue on result pages only.
LoopAfterSearchOnSuccessPage ==
    /\ [](InLoop /\ search = "returned" =>
             page.kind = "results" /\ outcome = "Success")
    /\ [][DOMAIN detail' # DOMAIN detail => OnResultPage(page)]_vars

\* C19: formFilled starts false; it is never reset; it becomes true only in
\* the step in which an invocation of performSearch returns without error;
\* it is false after every attempt whose performSearch threw, and the next
\* attempt of the listing task then runs the form protocol again.
C19_FlagLifecycle ==
    /\ ~formFilled
    /\ [][formFilled => formFilled']_vars
    /\ [][(~formFilled /\ formFilled') =>
             (pc = "classify" /\ search = "running" /\ search' = "returned"
                /\ error' = "none" /\ pc' = "enqueue")]_vars
    /\ [](formFilled <=> searchDone)
    /\ [](search = "threw" => ~formFilled)
    /\ [][(pc = "queued" /\ ~formFilled /\ pc' # "queued") =>
             (pc' = "waitForm" /\ search' = "running")]_vars

C19_Witness ==
    /\ formFilled
    /\ retryCount > 0
    /\ page.kind = "results"
    /\ search = "returned"

\* A step is the step of a detail task: the status of a queued detail
\* request changes.
DetailTaskStep == \E l \in DOMAIN detail : detail'[l] # detail[l]

\* C20: in every interleaving of the detail tasks with each other and with
\* the listing task, a step of a detail task ends one request, leaves
\* formFilled and everything else of the listing task as it was, adds no
\* request to the queue, and adds at most one record to the sink; no step
\* of the run removes or changes a record of the sink.
C20_DetailOnlyAppends ==
    /\ [][DetailTaskStep =>
             /\ UNCHANGED << formFilled, pc, page, retryCount, hasNextPage, search,
                             outcome, searchDone, error, submits, fills, harvested,
                             exported >>
             /\ DOMAIN detail' = DOMAIN detail
             /\ Cardinality({ l \in DOMAIN detail : detail'[l] # detail[l] }) = 1
             /\ sink \subseteq sink'
             /\ Cardinality(sink' \ sink) <= 1]_vars
    /\ [][sink \subseteq sink']_vars
    /\ [][sink' # sink => DetailTaskStep]_vars

C20_Witness ==
    /\ InLoop
    /\ Cardinality(sink) = 1
    /\ \E l \in DOMAIN detail : detail[l] = "queued"

====
